---------------------------- MODULE Spec2Model ----------------------------
(***************************************************************************)
(* kadom: scanner (lexer.rs), parser (parser.rs), evaluator (expr.rs,      *)
(* interpreter.rs), environment (environment.rs) and driver (main.rs).     *)
(*                                                                         *)
(* Text is modelled in two forms.  A source string is a sequence of        *)
(* one-character strings (the scanner indexes it byte by byte); every      *)
(* produced text (lexeme, message, printed line) is a TLA+ string built by *)
(* concatenation.  Str turns the first form into the second.               *)
(***************************************************************************)
EXTENDS Integers, Sequences, FiniteSets, TLC

VARIABLES
    mode,         \* what runs: a session (run_prompt), one run, or one stage
    pc,           \* control position of the driver / of the stage being run
    source,       \* Scanner.source
    scanner,      \* Scanner: tokens, start, current, line
    errors,       \* scan_tokens: local `errors`
    scanResult,   \* value returned by scan_tokens
    parser,       \* Parser: tokens, current
    statements,   \* parse: local `statements`; interpret: the list it runs
    perrors,      \* parse: local `errors`
    parseResult,  \* value returned by parse
    interpreter,  \* Interpreter: environment.values
    stmtIndex,    \* interpret: position of the for loop
    value,        \* interpret: local `value` of the statement last evaluated
    runResult,    \* value returned by run / interpret / evaluate / get
    stdout,       \* lines written to standard output
    hist          \* history of the run, read by the properties only

vars == <<mode, pc, source, scanner, errors, scanResult, parser, statements, perrors,
          parseResult, interpreter, stmtIndex, value, runResult, stdout, hist>>

-----------------------------------------------------------------------------
(* Characters and text                                                     *)

Digits == <<"0", "1", "2", "3", "4", "5", "6", "7", "8", "9">>

Lower == {"a", "b", "c", "d", "e", "f", "g", "h", "i", "j", "k", "l", "m",
          "n", "o", "p", "q", "r", "s", "t", "u", "v", "w", "x", "y", "z"}

Upper == {"A", "B", "C", "D", "E", "F", "G", "H", "I", "J", "K", "L", "M",
          "N", "O", "P", "Q", "R", "S", "T", "U", "V", "W", "X", "Y", "Z"}

\* '\0', which peek and peek_next return at the end of the source
NUL == "NUL"

is_ascii_digit(c) == \E i \in 1..10 : Digits[i] = c

DigitVal(c) == (CHOOSE i \in 1..10 : Digits[i] = c) - 1

is_alpha(c) == c \in Lower \cup Upper \cup {"_"}

is_alphanumeric(c) == is_alpha(c) \/ is_ascii_digit(c)

RECURSIVE Str(_)
Str(cs) == IF cs = <<>> THEN "" ELSE Head(cs) \o Str(Tail(cs))

\* u64 / usize rendered by Display
RECURSIVE NatToStr(_)
NatToStr(n) == IF n < 10 THEN Digits[n + 1]
               ELSE NatToStr(n \div 10) \o Digits[(n % 10) + 1]

\* &source[a..b] with 0-based byte offsets a <= b
Slice(src, a, b) == SubSeq(src, a + 1, b)

-----------------------------------------------------------------------------
(* lexer.rs: tokens                                                        *)

None == [tag |-> "None"]

\* f64 parsed from a digit lexeme: the decimal n / 10^k, trailing zeros of
\* the fraction dropped.  f64 tells apart all decimals of at most nine digits,
\* so the f64 is identified with the decimal it is nearest to.
RECURSIVE DecNorm(_, _)
DecNorm(n, k) == IF k > 0 /\ n % 10 = 0 THEN DecNorm(n \div 10, k - 1)
                 ELSE [n |-> n, k |-> k]

RECURSIVE DigitsToNat(_)
DigitsToNat(cs) == IF cs = <<>> THEN 0
                   ELSE DigitsToNat(SubSeq(cs, 1, Len(cs) - 1)) * 10
                        + DigitVal(cs[Len(cs)])

ParseF64(cs) ==
    LET dot == IF \E i \in 1..Len(cs) : cs[i] = "."
               THEN CHOOSE i \in 1..Len(cs) : cs[i] = "."
               ELSE 0
        ds  == IF dot = 0 THEN cs
               ELSE SubSeq(cs, 1, dot - 1) \o SubSeq(cs, dot + 1, Len(cs))
        k   == IF dot = 0 THEN 0 ELSE Len(cs) - dot
    IN  DecNorm(DigitsToNat(ds), k)

FVal(d) == [tag |-> "FVal", f |-> d]

StringVal(cs) == [tag |-> "StringVal", s |-> cs]

Token(token_type, lexeme, literal_option, line_number) ==
    [token_type |-> token_type, lexeme |-> lexeme,
     literal_option |-> literal_option, line_number |-> line_number]

Keywords == {"and", "class", "else", "false", "for", "fun", "if", "nil", "or",
             "print", "return", "super", "this", "true", "var", "while"}

KeywordType(text) ==
    CASE text = "and" -> "And"       [] text = "class" -> "Class"
      [] text = "else" -> "Else"     [] text = "false" -> "False"
      [] text = "for" -> "For"       [] text = "fun" -> "Fun"
      [] text = "if" -> "If"         [] text = "nil" -> "Nil"
      [] text = "or" -> "Or"         [] text = "print" -> "Print"
      [] text = "return" -> "Return" [] text = "super" -> "Super"
      [] text = "this" -> "This"     [] text = "true" -> "True"
      [] text = "var" -> "Var"       [] text = "while" -> "While"
      [] OTHER -> "Identifier"

-----------------------------------------------------------------------------
(* f32, the payload of LiteralValue::Number (expr.rs:24).  A value is      *)
(* [cls, neg, m, e]: for cls = "fin" it is (-1)^neg * m * 2^e with         *)
(* m < 2^24, MinExp <= e <= MaxExp, and m >= 2^23 unless e = MinExp        *)
(* (subnormals and zero).  Arithmetic is IEEE 754 round-to-nearest-even.   *)

MantBits == 24

MinExp == -149

MaxExp == 104

RECURSIVE Pow2(_)
Pow2(n) == IF n = 0 THEN 1 ELSE 2 * Pow2(n - 1)

RECURSIVE BitLen(_)
BitLen(n) == IF n = 0 THEN 0 ELSE 1 + BitLen(n \div 2)

Hidden == Pow2(MantBits - 1)

F32Zero(neg) == [cls |-> "fin", neg |-> neg, m |-> 0, e |-> MinExp]

F32Inf(neg) == [cls |-> "inf", neg |-> neg, m |-> 0, e |-> 0]

F32NaN == [cls |-> "nan", neg |-> FALSE, m |-> 0, e |-> 0]

F32IsZero(a) == a.cls = "fin" /\ a.m = 0

\* m * 2^e with m < 2^MantBits, e >= MinExp, made canonical
F32Pack(neg, m, e) ==
    IF m = 0 THEN F32Zero(neg)
    ELSE IF m = 2 * Hidden THEN
         (IF e + 1 > MaxExp THEN F32Inf(neg)
          ELSE [cls |-> "fin", neg |-> neg, m |-> Hidden, e |-> e + 1])
    ELSE IF e > MaxExp THEN F32Inf(neg)
    ELSE [cls |-> "fin", neg |-> neg, m |-> m, e |-> e]

\* Round (sig + t) * 2^e, 0 <= t < 1 and t > 0 iff sticky, to the nearest
\* f32, ties to even.  sig < 2^31; when sticky, sig >= 2^(MantBits+1).
RoundPack(neg, sig, e, sticky) ==
    IF sig = 0 THEN F32Zero(neg)
    ELSE
    LET bl == BitLen(sig)
        s  == IF bl - MantBits > MinExp - e THEN bl - MantBits ELSE MinExp - e
    IN  IF s <= 0 THEN F32Pack(neg, sig * Pow2(-s), e + s)
        ELSE IF s > 31 THEN F32Zero(neg)
        ELSE IF s = 31
             THEN (IF sig > Pow2(30) \/ (sig = Pow2(30) /\ sticky)
                   THEN F32Pack(neg, 1, MinExp) ELSE F32Zero(neg))
        ELSE LET q    == sig \div Pow2(s)
                 r    == sig % Pow2(s)
                 half == Pow2(s - 1)
                 up   == r > half \/ (r = half /\ (sticky \/ q % 2 = 1))
             IN  F32Pack(neg, IF up THEN q + 1 ELSE q, e + s)

\* a nonzero finite value with its mantissa shifted up to MantBits bits
\* (the exponent may leave the f32 range)
RECURSIVE NormUp(_, _)
NormUp(m, e) == IF m >= Hidden THEN [m |-> m, e |-> e] ELSE NormUp(2 * m, e - 1)

F32Neg(a) == IF a.cls = "nan" THEN a ELSE [a EXCEPT !.neg = ~a.neg]

\* extra low bits kept while aligning the operands of an addition
GuardBits == 6

\* a + b for finite a, b with a.e >= b.e
AddAligned(a, b) ==
    LET d == a.e - b.e
    IN  IF d <= GuardBits
        THEN LET x  == (IF a.neg THEN -1 ELSE 1) * a.m * Pow2(d)
                 y  == (IF b.neg THEN -1 ELSE 1) * b.m
                 sm == x + y
             IN  IF sm = 0 THEN F32Zero(a.neg /\ b.neg)
                 ELSE RoundPack(sm < 0, IF sm < 0 THEN -sm ELSE sm, b.e, FALSE)
        ELSE LET sh   == d - GuardBits
                 big  == a.m * Pow2(GuardBits)
                 sml  == IF sh > MantBits THEN 0 ELSE b.m \div Pow2(sh)
                 lost == b.m # 0 /\ (sh > MantBits \/ b.m % Pow2(sh) # 0)
             IN  IF a.neg = b.neg
                 THEN RoundPack(a.neg, big + sml, a.e - GuardBits, lost)
                 ELSE IF lost
                      THEN RoundPack(a.neg, big - sml - 1, a.e - GuardBits, TRUE)
                      ELSE RoundPack(a.neg, big - sml, a.e - GuardBits, FALSE)

\* x + y
F32Add(a, b) ==
    IF a.cls = "nan" \/ b.cls = "nan" THEN F32NaN
    ELSE IF a.cls = "inf"
         THEN (IF b.cls = "inf" /\ a.neg # b.neg THEN F32NaN ELSE a)
    ELSE IF b.cls = "inf" THEN b
    ELSE IF a.e >= b.e THEN AddAligned(a, b) ELSE AddAligned(b, a)

\* x - y
F32Sub(a, b) == F32Add(a, F32Neg(b))

LimbBits == 12

\* x * y
F32Mul(a, b) ==
    LET neg == a.neg # b.neg
    IN  IF a.cls = "nan" \/ b.cls = "nan" THEN F32NaN
        ELSE IF a.cls = "inf" \/ b.cls = "inf"
             THEN (IF F32IsZero(a) \/ F32IsZero(b) THEN F32NaN ELSE F32Inf(neg))
        ELSE IF a.m = 0 \/ b.m = 0 THEN F32Zero(neg)
        ELSE LET x   == NormUp(a.m, a.e)
                 y   == NormUp(b.m, b.e)
                 L   == Pow2(LimbBits)
                 a1  == x.m \div L
                 a0  == x.m % L
                 b1  == y.m \div L
                 b0  == y.m % L
                 mid == a1 * b0 + a0 * b1
                 lot == a0 * b0 + (mid % L) * L
                 hi  == a1 * b1 + mid \div L + lot \div (L * L)
                 lo  == lot % (L * L)
                 cut == 2 * LimbBits - GuardBits
             IN  RoundPack(neg, hi * Pow2(GuardBits) + lo \div Pow2(cut),
                           x.e + y.e + cut, lo % Pow2(cut) # 0)

\* quotient bits produced after the integer part
QuotBits == 26

\* k more bits of the quotient q of rem / den: <<q, rem>>
RECURSIVE DivLoop(_, _, _, _)
DivLoop(q, rem, den, k) ==
    IF k = 0 THEN <<q, rem>>
    ELSE LET r2 == 2 * rem
         IN  IF r2 >= den THEN DivLoop(2 * q + 1, r2 - den, den, k - 1)
             ELSE DivLoop(2 * q, r2, den, k - 1)

\* x / y
F32Div(a, b) ==
    LET neg == a.neg # b.neg
    IN  IF a.cls = "nan" \/ b.cls = "nan" THEN F32NaN
        ELSE IF a.cls = "inf"
             THEN (IF b.cls = "inf" THEN F32NaN ELSE F32Inf(neg))
        ELSE IF b.cls = "inf" THEN F32Zero(neg)
        ELSE IF b.m = 0 THEN (IF a.m = 0 THEN F32NaN ELSE F32Inf(neg))
        ELSE IF a.m = 0 THEN F32Zero(neg)
        ELSE LET x  == NormUp(a.m, a.e)
                 y  == NormUp(b.m, b.e)
                 qr == DivLoop(x.m \div y.m, x.m % y.m, y.m, QuotBits)
             IN  RoundPack(neg, qr[1], x.e - y.e - QuotBits, qr[2] # 0)

\* x == y of f32 (PartialEq): NaN equals nothing, -0 equals 0
F32Eq(a, b) ==
    /\ a.cls # "nan"
    /\ b.cls # "nan"
    /\ \/ a = b
       \/ F32IsZero(a) /\ F32IsZero(b)

\* x < y of f32 (PartialOrd)
F32Lt(a, b) ==
    LET \* the order of magnitudes of non-NaN values
        MagLt(x, y) == IF x.cls = "inf" THEN FALSE
                       ELSE IF y.cls = "inf" THEN TRUE
                       ELSE x.e < y.e \/ (x.e = y.e /\ x.m < y.m)
    IN  /\ a.cls # "nan"
        /\ b.cls # "nan"
        /\ ~(F32IsZero(a) /\ F32IsZero(b))
        /\ IF a.neg /\ ~b.neg THEN TRUE
           ELSE IF ~a.neg /\ b.neg THEN FALSE
           ELSE IF a.neg THEN MagLt(b, a)
           ELSE MagLt(a, b)

RECURSIVE Pow10(_)
Pow10(n) == IF n = 0 THEN 1 ELSE 10 * Pow10(n - 1)

\* binary digits of rem / den appended to sig until it has FracBits bits
FracBits == 27

RECURSIVE FracLoop(_, _, _, _)
FracLoop(sig, rem, den, e) ==
    IF sig >= Pow2(FracBits - 1) \/ rem = 0
    THEN [sig |-> sig, rem |-> rem, e |-> e]
    ELSE LET r2 == 2 * rem
         IN  IF r2 >= den THEN FracLoop(2 * sig + 1, r2 - den, den, e - 1)
             ELSE FracLoop(2 * sig, r2, den, e - 1)

\* `s as f32` of the f64 nearest the decimal d.n / 10^d.k.  For at most nine
\* digits (at most eight after the point) the decimal is farther from every
\* f32 rounding boundary, unless it lies on it, than the f64 is from the
\* decimal, so narrowing the f64 rounds the decimal itself.
F64AsF32(d) ==
    LET den == Pow10(d.k)
        ip  == d.n \div den
        fr  == d.n % den
    IN  IF fr = 0 \/ ip >= Pow2(MantBits + 1)
        THEN RoundPack(FALSE, ip, 0, fr # 0)
        ELSE LET x == FracLoop(ip, fr, den, 0)
             IN  RoundPack(FALSE, x.sig, x.e, x.rem # 0)

-----------------------------------------------------------------------------
(* Display and Debug of f32: the shortest decimal digits that read back as *)
(* the same f32 (core::num::flt2dec, Steele-White / Dragon4), computed on  *)
(* naturals held as sequences of decimal digits, least significant first.  *)

RECURSIVE BFromNat(_)
BFromNat(n) == IF n = 0 THEN <<>> ELSE <<n % 10>> \o BFromNat(n \div 10)

RECURSIVE BAddC(_, _, _)
BAddC(a, b, c) ==
    IF a = <<>> /\ b = <<>> THEN (IF c = 0 THEN <<>> ELSE <<c>>)
    ELSE LET x == IF a = <<>> THEN 0 ELSE Head(a)
             y == IF b = <<>> THEN 0 ELSE Head(b)
             t == x + y + c
         IN  <<t % 10>> \o BAddC(IF a = <<>> THEN a ELSE Tail(a),
                                 IF b = <<>> THEN b ELSE Tail(b), t \div 10)

BAdd(a, b) == BAddC(a, b, 0)

RECURSIVE BTrim(_)
BTrim(a) == IF a # <<>> /\ a[Len(a)] = 0 THEN BTrim(SubSeq(a, 1, Len(a) - 1))
            ELSE a

\* a - b - c for a >= b + c, untrimmed
RECURSIVE BSubB(_, _, _)
BSubB(a, b, c) ==
    IF a = <<>> THEN <<>>
    ELSE LET y == IF b = <<>> THEN 0 ELSE Head(b)
             t == Head(a) - y - c
         IN  <<IF t < 0 THEN t + 10 ELSE t>>
             \o BSubB(Tail(a), IF b = <<>> THEN b ELSE Tail(b),
                      IF t < 0 THEN 1 ELSE 0)

BSub(a, b) == BTrim(BSubB(a, b, 0))

\* -1, 0, 1 as a < b, a = b, a > b
RECURSIVE BCmpFrom(_, _, _)
BCmpFrom(a, b, i) ==
    IF i = 0 THEN 0
    ELSE IF a[i] < b[i] THEN -1
    ELSE IF a[i] > b[i] THEN 1
    ELSE BCmpFrom(a, b, i - 1)

BCmp(a, b) == IF Len(a) < Len(b) THEN -1
              ELSE IF Len(a) > Len(b) THEN 1
              ELSE BCmpFrom(a, b, Len(a))

BMul10(a) == IF a = <<>> THEN a ELSE <<0>> \o a

RECURSIVE BMulPow2(_, _)
BMulPow2(a, k) == IF k = 0 THEN a ELSE BMulPow2(BAdd(a, a), k - 1)

\* <<quotient, remainder>> of a / s for a < 10 * s
RECURSIVE BDigitDiv(_, _, _)
BDigitDiv(a, s, d) == IF BCmp(a, s) < 0 THEN <<d, a>>
                      ELSE BDigitDiv(BSub(a, s), s, d + 1)

\* the scaling of Dragon4: the least k with (r + mp) / s below 10^k
RECURSIVE DragonFixup(_, _, _, _, _, _)
DragonFixup(r, s, mp, mm, k, incl) ==
    LET hi == BAdd(r, mp)
        c  == BCmp(hi, s)
        c10 == BCmp(BMul10(hi), s)
    IN  IF c > 0 \/ (c = 0 /\ incl)
        THEN DragonFixup(r, BMul10(s), mp, mm, k + 1, incl)
        ELSE IF c10 < 0 \/ (c10 = 0 /\ ~incl)
        THEN DragonFixup(BMul10(r), s, BMul10(mp), BMul10(mm), k - 1, incl)
        ELSE [r |-> r, s |-> s, mp |-> mp, mm |-> mm, k |-> k]

\* round_up of flt2dec: the digits plus one in the last place
RECURSIVE DigitsRoundUp(_)
DigitsRoundUp(ds) ==
    IF ds = <<>> THEN <<1>>
    ELSE IF ds[Len(ds)] < 9
         THEN SubSeq(ds, 1, Len(ds) - 1) \o <<ds[Len(ds)] + 1>>
    ELSE DigitsRoundUp(SubSeq(ds, 1, Len(ds) - 1)) \o <<0>>

\* digit generation: [digits, k], most significant digit first
RECURSIVE DragonGen(_, _, _, _, _, _, _)
DragonGen(r, s, mp, mm, k, incl, ds) ==
    LET qr   == BDigitDiv(BMul10(r), s, 0)
        rem  == qr[2]
        mp1  == BMul10(mp)
        mm1  == BMul10(mm)
        cd   == BCmp(rem, mm1)
        cu   == BCmp(BAdd(rem, mp1), s)
        down == cd < 0 \/ (cd = 0 /\ incl)
        up   == cu > 0 \/ (cu = 0 /\ incl)
        ds1  == Append(ds, qr[1])
    IN  IF ~down /\ ~up THEN DragonGen(rem, s, mp1, mm1, k, incl, ds1)
        ELSE IF up /\ (~down \/ BCmp(BAdd(rem, rem), s) >= 0)
        THEN LET ru == DigitsRoundUp(ds1)
             IN  IF Len(ru) > Len(ds1)
                 THEN [digits |-> SubSeq(ru, 1, Len(ds1)) \o <<0>>, k |-> k + 1]
                 ELSE [digits |-> ru, k |-> k]
        ELSE [digits |-> ds1, k |-> k]

\* shortest digits of the positive finite m * 2^e: 0.d1 d2 ... dn * 10^k
ShortestDigits(m, e) ==
    LET incl  == m % 2 = 0
        edge  == m = Hidden
        bm    == BFromNat(m)
        r0    == IF e >= 0 THEN BMulPow2(bm, e + (IF edge THEN 2 ELSE 1))
                 ELSE BMulPow2(bm, IF edge THEN 2 ELSE 1)
        s0    == IF e >= 0 THEN BFromNat(IF edge THEN 4 ELSE 2)
                 ELSE BMulPow2(<<1>>, (IF edge THEN 2 ELSE 1) - e)
        mm0   == IF e >= 0 THEN BMulPow2(<<1>>, e) ELSE <<1>>
        mp0   == IF edge THEN BAdd(mm0, mm0) ELSE mm0
        f     == DragonFixup(r0, s0, mp0, mm0, 0, incl)
    IN  DragonGen(f.r, f.s, f.mp, f.mm, f.k, incl, <<>>)

RECURSIVE DigitsStr(_)
DigitsStr(ds) == IF ds = <<>> THEN "" ELSE Digits[Head(ds) + 1] \o DigitsStr(Tail(ds))

RECURSIVE Zeros(_)
Zeros(n) == IF n <= 0 THEN "" ELSE "0" \o Zeros(n - 1)

\* digits_to_dec_str: positional notation with at least frac_digits
\* digits after the point
DigitsToDecStr(ds, k, frac_digits) ==
    LET n == Len(ds)
    IN  IF k <= 0 THEN "0." \o Zeros(-k) \o DigitsStr(ds)
                       \o Zeros(frac_digits - (n - k))
        ELSE IF k < n THEN DigitsStr(SubSeq(ds, 1, k)) \o "."
                           \o DigitsStr(SubSeq(ds, k + 1, n))
                           \o Zeros(frac_digits - (n - k))
        ELSE DigitsStr(ds) \o Zeros(k - n)
             \o (IF frac_digits > 0 THEN "." \o Zeros(frac_digits) ELSE "")

\* digits_to_exp_str: d1.d2...dn e <k - 1>
DigitsToExpStr(ds, k) ==
    DigitsStr(<<Head(ds)>>)
    \o (IF Len(ds) > 1 THEN "." \o DigitsStr(Tail(ds)) ELSE "")
    \o (IF k - 1 < 0 THEN "e-" \o NatToStr(1 - k) ELSE "e" \o NatToStr(k - 1))

\* impl Display for f32: x.to_string()
F32ToString(a) ==
    IF a.cls = "nan" THEN "NaN"
    ELSE (IF a.neg THEN "-" ELSE "") \o
         (IF a.cls = "inf" THEN "inf"
          ELSE IF a.m = 0 THEN "0"
          ELSE LET d == ShortestDigits(a.m, a.e)
               IN  DigitsToDecStr(d.digits, d.k, 0))

\* decimal exponents from which Debug switches to exponent notation
\* (abs >= 1e16, abs < 1e-4)
DebugExpHigh == 17

DebugExpLow == -4

\* impl Debug for f32: {:?}
F32Debug(a) ==
    IF a.cls = "nan" THEN "NaN"
    ELSE (IF a.neg THEN "-" ELSE "") \o
         (IF a.cls = "inf" THEN "inf"
          ELSE IF a.m = 0 THEN "0.0"
          ELSE LET d == ShortestDigits(a.m, a.e)
               IN  IF d.k >= DebugExpHigh \/ d.k <= DebugExpLow
                   THEN DigitsToExpStr(d.digits, d.k)
                   ELSE DigitsToDecStr(d.digits, d.k, 1))

-----------------------------------------------------------------------------
(* lexer.rs: Scanner.  A scanner value is the record of the struct's       *)
(* mutable fields plus `panicked`, set when an index leaves the source.    *)

ScannerNew(src) ==
    [source |-> src, tokens |-> <<>>, start |-> 0, current |-> 0, line |-> 1,
     panicked |-> FALSE]

ScIsAtEnd(s) == s.current >= Len(s.source)

\* source_char_at_current: as_bytes()[current], which panics out of bounds
ScInBounds(s) == s.current < Len(s.source)

source_char_at_current(s) == s.source[s.current + 1]

\* advance: the character read and the scanner after it
ScAdvance(s) ==
    IF s.panicked \/ ~ScInBounds(s)
    THEN [s EXCEPT !.panicked = TRUE]
    ELSE [s EXCEPT !.current = s.current + 1]

ScPeek(s) == IF ScIsAtEnd(s) THEN NUL ELSE source_char_at_current(s)

peek_next(s) == IF s.current + 1 >= Len(s.source) THEN NUL
                ELSE s.source[s.current + 2]

\* match_char: <<matched, scanner after>>
match_char(s, character) ==
    IF ScIsAtEnd(s) \/ source_char_at_current(s) # character
    THEN <<FALSE, s>>
    ELSE <<TRUE, [s EXCEPT !.current = s.current + 1]>>

add_token(s, token_type, literal_option) ==
    [s EXCEPT !.tokens = Append(s.tokens,
        Token(token_type, Str(Slice(s.source, s.start, s.current)),
              literal_option, s.line))]

add_token_null_literal(s, token_type) == add_token(s, token_type, None)

\* Result<(), String> of scan_token and its helpers, with the scanner after
ScOk(s) == [s |-> s, ok |-> ~s.panicked, err |-> ""]

ScErr(s, msg) == [s |-> s, ok |-> FALSE, err |-> msg]

\* the loop of the `//` branch
RECURSIVE LineCommentLoop(_)
LineCommentLoop(s) ==
    IF s.panicked THEN s
    ELSE IF ScPeek(s) = "\n" \/ ~ScIsAtEnd(s) THEN s
    ELSE LineCommentLoop(ScAdvance(s))

\* the loop of string_literal
RECURSIVE StringLoop(_)
StringLoop(s) ==
    IF ScPeek(s) = "\"" \/ ScIsAtEnd(s) THEN s
    ELSE StringLoop(ScAdvance(
            IF ScPeek(s) = "\n" THEN [s EXCEPT !.line = s.line + 1] ELSE s))

string_literal(s0) ==
    LET s == StringLoop(s0)
    IN  IF ScIsAtEnd(s)
        THEN ScErr(s, "unterminated string lol :/ on line " \o NatToStr(s.line))
        ELSE LET t == ScAdvance(s)
             IN  ScOk(add_token(t, "StringLiteral",
                        StringVal(Slice(t.source, t.start + 1, t.current - 1))))

RECURSIVE DigitLoop(_)
DigitLoop(s) == IF is_ascii_digit(ScPeek(s)) THEN DigitLoop(ScAdvance(s)) ELSE s

number(s0) ==
    LET s == DigitLoop(s0)
        t == IF ScPeek(s) = "." /\ is_ascii_digit(peek_next(s))
             THEN DigitLoop(ScAdvance(s))
             ELSE s
    IN  ScOk(add_token(t, "Number",
                FVal(ParseF64(Slice(t.source, t.start, t.current)))))

RECURSIVE IdentLoop(_)
IdentLoop(s) == IF is_alphanumeric(ScPeek(s)) THEN IdentLoop(ScAdvance(s)) ELSE s

identifier(s0) ==
    LET s == IdentLoop(s0)
        text == Str(Slice(s.source, s.start, s.current))
    IN  ScOk(add_token_null_literal(s, KeywordType(text)))

SingleCharType(c) ==
    CASE c = "(" -> "LeftParent" [] c = ")" -> "RightParent"
      [] c = "{" -> "LeftBrace"  [] c = "}" -> "RightBrace"
      [] c = "," -> "Comma"      [] c = "." -> "Dot"
      [] c = "-" -> "Minus"      [] c = "+" -> "Plus"
      [] c = ";" -> "Semicolon"  [] c = "*" -> "Star"

\* the two token kinds of = ! < >: <<with a trailing =, without>>
OperatorTypes(c) ==
    CASE c = "=" -> <<"EqualEqual", "Equal">>
      [] c = "!" -> <<"BangEqual", "Bang">>
      [] c = "<" -> <<"LessEqual", "Less">>
      [] c = ">" -> <<"GreaterEqual", "Greater">>

UnrecognisedMsg(c, line) ==
    "Oopsie, character not recognised: " \o c \o " at line " \o NatToStr(line)

\* the `/` arm of scan_token
SlashArm(s) ==
    LET m == match_char(s, "/")
        t == IF m[1] THEN LineCommentLoop(m[2]) ELSE m[2]
    IN  IF t.panicked THEN ScOk(t)
        ELSE ScOk(add_token_null_literal(t, "Slash"))

scan_token(s0) ==
    LET s == ScAdvance(s0)
        c == source_char_at_current(s0)
    IN  IF s.panicked THEN ScOk(s)
        ELSE IF c \in {"(", ")", "{", "}", ",", ".", "-", "+", ";", "*"}
             THEN ScOk(add_token_null_literal(s, SingleCharType(c)))
        ELSE IF c \in {"=", "!", "<", ">"}
             THEN LET m == match_char(s, "=")
                  IN  ScOk(add_token_null_literal(m[2],
                        IF m[1] THEN OperatorTypes(c)[1] ELSE OperatorTypes(c)[2]))
        ELSE IF c = "/" THEN SlashArm(s)
        ELSE IF c \in {" ", "\r", "\t"} THEN ScOk(s)
        ELSE IF c = "\n" THEN ScOk([s EXCEPT !.line = s.line + 1])
        ELSE IF c = "\"" THEN string_literal(s)
        ELSE IF is_ascii_digit(c) THEN number(s)
        ELSE IF is_alpha(c) THEN identifier(s)
        ELSE ScErr(s, UnrecognisedMsg(c, s.line))

\* Result<_, String>
Ok(v) == [ok |-> TRUE, val |-> v, err |-> ""]

Err(msg) == [ok |-> FALSE, val |-> <<>>, err |-> msg]

NoResult == [ok |-> FALSE, val |-> <<>>, err |-> "(none)"]

\* errors.iter().for_each(|msg| { joined.push_str(msg); joined.push('\n') })
RECURSIVE JoinLines(_)
JoinLines(msgs) == IF msgs = <<>> THEN ""
                   ELSE Head(msgs) \o "\n" \o JoinLines(Tail(msgs))


-----------------------------------------------------------------------------
(* expr.rs: runtime values                                                 *)

LvNumber(f) == [kind |-> "Number", f |-> f]

LvString(cs) == [kind |-> "String", s |-> cs]

LvTrue == [kind |-> "True"]

LvFalse == [kind |-> "False"]

LvNil == [kind |-> "Nil"]

unwrap_as_f32(literal) ==
    IF literal.tag = "FVal" THEN Ok(F64AsF32(literal.f))
    ELSE Err("Could not unwrap as f32")

unwrap_as_string(literal) ==
    IF literal.tag = "StringVal" THEN Ok(literal.s)
    ELSE Err("Could not unwrap as string")

\* impl Display for LiteralValue
LiteralValueToString(v) ==
    CASE v.kind = "Number" -> F32ToString(v.f)
      [] v.kind = "String" -> Str(v.s)
      [] v.kind = "True" -> "true"
      [] v.kind = "False" -> "false"
      [] v.kind = "Nil" -> "nil"

\* <str as Debug>: quoted, with the escapes of char::escape_debug
RECURSIVE EscapeDebug(_)
EscapeDebug(cs) ==
    IF cs = <<>> THEN ""
    ELSE (CASE Head(cs) = "\"" -> "\\\""
            [] Head(cs) = "\\" -> "\\\\"
            [] Head(cs) = "\n" -> "\\n"
            [] Head(cs) = "\r" -> "\\r"
            [] Head(cs) = "\t" -> "\\t"
            [] OTHER -> Head(cs)) \o EscapeDebug(Tail(cs))

\* #[derive(Debug)] of LiteralValue
LiteralValueDebug(v) ==
    CASE v.kind = "Number" -> "Number(" \o F32Debug(v.f) \o ")"
      [] v.kind = "String" -> "String(\"" \o EscapeDebug(v.s) \o "\")"
      [] OTHER -> v.kind

\* LiteralValue::from_token: Result, or a panic on any other token kind
from_token(token) ==
    CASE token.token_type = "Number" ->
            LET r == unwrap_as_f32(token.literal_option)
            IN  IF r.ok THEN Ok(LvNumber(r.val)) ELSE r
      [] token.token_type = "StringLiteral" ->
            LET r == unwrap_as_string(token.literal_option)
            IN  IF r.ok THEN Ok(LvString(r.val)) ELSE r
      [] token.token_type = "False" -> Ok(LvFalse)
      [] token.token_type = "True" -> Ok(LvTrue)
      [] token.token_type = "Nil" -> Ok(LvNil)
      [] OTHER -> [ok |-> FALSE, val |-> <<>>, err |-> "panic"]

\* a not with the truthiness of Lox: only false and nil are falsey
notOnlyNilAndFalse(v) ==
    IF v.kind \in {"False", "Nil"} THEN LvTrue ELSE LvFalse

\* LiteralValue::not
not(v) ==
    CASE v.kind \in {"False", "Nil"} -> LvTrue
      [] v.kind = "Number" ->
            IF F32Eq(v.f, F32Zero(FALSE)) THEN LvTrue ELSE LvFalse
      [] v.kind = "String" -> IF v.s = <<>> THEN LvTrue ELSE LvFalse
      [] v.kind = "True" -> LvFalse

from_bool(boolean) == IF boolean THEN LvTrue ELSE LvFalse

\* #[derive(PartialEq)] of LiteralValue: x == y
LiteralValueEq(x, y) ==
    /\ x.kind = y.kind
    /\ CASE x.kind = "Number" -> F32Eq(x.f, y.f)
         [] x.kind = "String" -> x.s = y.s
         [] OTHER -> TRUE

\* bytes of the characters a source may hold (0x20 to 0x7e; the grave accent,
\* which a TLA+ string cannot hold, is written GRAVE)
AsciiPrintable ==
    <<" ", "!", "\"", "#", "$", "%", "&", "'", "(", ")", "*", "+", ",", "-",
      ".", "/", "0", "1", "2", "3", "4", "5", "6", "7", "8", "9", ":", ";",
      "<", "=", ">", "?", "@", "A", "B", "C", "D", "E", "F", "G", "H", "I",
      "J", "K", "L", "M", "N", "O", "P", "Q", "R", "S", "T", "U", "V", "W",
      "X", "Y", "Z", "[", "\\", "]", "^", "_", "GRAVE", "a", "b", "c", "d", "e",
      "f", "g", "h", "i", "j", "k", "l", "m", "n", "o", "p", "q", "r", "s",
      "t", "u", "v", "w", "x", "y", "z", "{", "|", "}", "~">>

Byte(c) ==
    CASE c = "\t" -> 9 [] c = "\n" -> 10 [] c = "\r" -> 13
      [] OTHER -> 31 + CHOOSE i \in 1..Len(AsciiPrintable) : AsciiPrintable[i] = c

\* x < y of String: byte-wise lexicographic order
RECURSIVE StringLt(_, _)
StringLt(x, y) ==
    IF y = <<>> THEN FALSE
    ELSE IF x = <<>> THEN TRUE
    ELSE IF Byte(Head(x)) # Byte(Head(y)) THEN Byte(Head(x)) < Byte(Head(y))
    ELSE StringLt(Tail(x), Tail(y))

-----------------------------------------------------------------------------
(* expr.rs: Expr, stmt.rs: Stmt                                            *)

Binary(left, operator, right) ==
    [type |-> "Binary", left |-> left, operator |-> operator, right |-> right]

Grouping(expression) == [type |-> "Grouping", expression |-> expression]

Literal(v) == [type |-> "Literal", value |-> v]

Unary(operator, right) ==
    [type |-> "Unary", operator |-> operator, right |-> right]

Variable(name) == [type |-> "Variable", name |-> name]

StmtExpression(expression) == [type |-> "Expression", expression |-> expression]

StmtPrint(expression) == [type |-> "Print", expression |-> expression]

StmtVar(name, initialiser) ==
    [type |-> "Var", name |-> name, initialiser |-> initialiser]

\* a Display that writes a Binary node infix and drops the group label
RECURSIVE ExprToStringInfix(_)
ExprToStringInfix(x) ==
    CASE x.type = "Binary" ->
            "(" \o ExprToStringInfix(x.left) \o " " \o x.operator.lexeme
            \o " " \o ExprToStringInfix(x.right) \o ")"
      [] x.type = "Grouping" -> "(" \o ExprToStringInfix(x.expression) \o ")"
      [] x.type = "Literal" -> LiteralValueToString(x.value)
      [] x.type = "Unary" ->
            "(" \o x.operator.lexeme \o " " \o ExprToStringInfix(x.right)
            \o ")"
      [] x.type = "Variable" -> "var " \o x.name.lexeme

\* impl Display for Expr
RECURSIVE ExprToString(_)
ExprToString(x) ==
    CASE x.type = "Binary" ->
            "(" \o x.operator.lexeme \o " " \o ExprToString(x.left) \o " "
            \o ExprToString(x.right) \o ")"
      [] x.type = "Grouping" -> "(group " \o ExprToString(x.expression) \o ")"
      [] x.type = "Literal" -> LiteralValueToString(x.value)
      [] x.type = "Unary" ->
            "(" \o x.operator.lexeme \o " " \o ExprToString(x.right) \o ")"
      [] x.type = "Variable" -> "var " \o x.name.lexeme

-----------------------------------------------------------------------------
(* environment.rs                                                          *)

EnvironmentNew == [values |-> [n \in {} |-> LvNil]]

\* a define that keeps an existing binding
defineKeepsBinding(env, name, v) ==
    [env EXCEPT !.values = [n \in DOMAIN env.values \cup {name} |->
                              IF n \in DOMAIN env.values THEN env.values[n]
                              ELSE v]]

\* Environment::define
define(env, name, v) ==
    [env EXCEPT !.values = [n \in DOMAIN env.values \cup {name} |->
                              IF n = name THEN v ELSE env.values[n]]]

\* Environment::get
get(env, name) ==
    IF name \in DOMAIN env.values THEN Ok(env.values[name])
    ELSE Err("Variable " \o name \o " not declared yet!")

-----------------------------------------------------------------------------
(* expr.rs: Expr::evaluate                                                 *)

\* the Unary arm, on the operand's value
EvalUnary(right, op) ==
    IF op = "Minus"
    THEN (IF right.kind = "Number" THEN Ok(LvNumber(F32Neg(right.f)))
          ELSE Err("Negation not implemented for " \o LiteralValueDebug(right)))
    ELSE IF op = "Bang" THEN Ok(not(right))
    ELSE Err("Unreachable")

\* a Binary arm whose type-mismatch errors come before the equality arms
EvalBinaryMismatchFirst(x, op, y) ==
    IF x.kind # y.kind THEN Err("Mismatched types for " \o op)
    ELSE IF op = "EqualEqual" THEN Ok(from_bool(LiteralValueEq(x, y)))
    ELSE IF op = "BangEqual" THEN Ok(from_bool(~LiteralValueEq(x, y)))
    ELSE Err(op \o " cannot be evaluated")

\* the Binary arm, on the operands' values: the match arms in source order
EvalBinary(x, op, y) ==
    LET nn == x.kind = "Number" /\ y.kind = "Number"
        ss == x.kind = "String" /\ y.kind = "String"
    IN  CASE nn /\ op = "Minus" -> Ok(LvNumber(F32Sub(x.f, y.f)))
          [] nn /\ op = "Slash" -> Ok(LvNumber(F32Div(x.f, y.f)))
          [] nn /\ op = "Star" -> Ok(LvNumber(F32Mul(x.f, y.f)))
          [] nn /\ op = "Plus" -> Ok(LvNumber(F32Add(x.f, y.f)))
          [] ss /\ op = "Plus" -> Ok(LvString(x.s \o y.s))
          [] nn /\ op = "Greater" -> Ok(from_bool(F32Lt(y.f, x.f)))
          [] nn /\ op = "GreaterEqual" ->
                Ok(from_bool(F32Lt(y.f, x.f) \/ F32Eq(x.f, y.f)))
          [] nn /\ op = "Less" -> Ok(from_bool(F32Lt(x.f, y.f)))
          [] nn /\ op = "LessEqual" ->
                Ok(from_bool(F32Lt(x.f, y.f) \/ F32Eq(x.f, y.f)))
          [] ss /\ op = "Greater" -> Ok(from_bool(StringLt(y.s, x.s)))
          [] ss /\ op = "GreaterEqual" -> Ok(from_bool(~StringLt(x.s, y.s)))
          [] ss /\ op = "Less" -> Ok(from_bool(StringLt(x.s, y.s)))
          [] ss /\ op = "LessEqual" -> Ok(from_bool(~StringLt(y.s, x.s)))
          [] op = "EqualEqual" -> Ok(from_bool(LiteralValueEq(x, y)))
          [] op = "BangEqual" -> Ok(from_bool(~LiteralValueEq(x, y)))
          [] x.kind = "String" /\ y.kind = "Number" /\ op # "EqualEqual"
             /\ op # "BangEqual" ->
                Err("Mismatched types for " \o op \o ": String and Number")
          [] x.kind = "Number" /\ y.kind = "String" /\ op # "EqualEqual"
             /\ op # "BangEqual" ->
                Err("Mismatched types for " \o op \o ": Number and String")
          [] OTHER ->
                Err(op \o " cannot be evaluated for " \o LiteralValueDebug(x)
                    \o " and " \o LiteralValueDebug(y))

RECURSIVE evaluate(_, _)
evaluate(x, environment) ==
    CASE x.type = "Literal" -> Ok(x.value)
      [] x.type = "Grouping" -> evaluate(x.expression, environment)
      [] x.type = "Unary" ->
            LET r == evaluate(x.right, environment)
            IN  IF ~r.ok THEN r ELSE EvalUnary(r.val, x.operator.token_type)
      [] x.type = "Binary" ->
            LET l == evaluate(x.left, environment)
            IN  IF ~l.ok THEN l
                ELSE LET r == evaluate(x.right, environment)
                     IN  IF ~r.ok THEN r
                         ELSE EvalBinary(l.val, x.operator.token_type, r.val)
      [] x.type = "Variable" -> get(environment, x.name.lexeme)

-----------------------------------------------------------------------------
(* parser.rs: Parser.  A parser value is the record of the struct's fields *)
(* plus `panicked`, set when previous() is read with the cursor at 0.      *)

ParserNew(tokens) == [tokens |-> tokens, current |-> 0, panicked |-> FALSE]

PPeek(p) == p.tokens[p.current + 1]

PIsAtEnd(p) == PPeek(p).token_type = "Eof"

\* previous: tokens[current - 1]; read only with current >= 1
previous(p) == p.tokens[p.current]

check(p, token_type) ==
    IF PIsAtEnd(p) THEN FALSE ELSE PPeek(p).token_type = token_type

\* advance: the parser after it (its value is previous() of that parser)
PAdvance(p) ==
    LET q == IF ~PIsAtEnd(p) THEN [p EXCEPT !.current = p.current + 1] ELSE p
    IN  IF q.current = 0 THEN [q EXCEPT !.panicked = TRUE] ELSE q

\* match_token: <<matched, parser after>>; types is a set, at most one of
\* which is the kind of the token under the cursor
match_token(p, types) ==
    IF \E t \in types : check(p, t) THEN <<TRUE, PAdvance(p)>>
    ELSE <<FALSE, p>>

\* Result<Expr / Stmt / Token, String> with the parser after the call and
\* the lines the call wrote to standard output
PR(p, ok, val, err, out) ==
    [p |-> p, ok |-> ok, val |-> val, err |-> err, out |-> out]

consume(p, token_type, msg) ==
    IF check(p, token_type)
    THEN PR(PAdvance(p), TRUE, PPeek(p), "", <<>>)
    ELSE PR(p, FALSE, <<>>, msg, <<>>)

\* F applied to the value of v, computed once: { let x = v; F(x) }
Bind(v, F(_)) == CHOOSE y \in {F(x) : x \in {v}} : TRUE

RECURSIVE expression(_)
RECURSIVE equality(_)
RECURSIVE EqualityLoop(_, _)
RECURSIVE comparison(_)
RECURSIVE ComparisonLoop(_, _)
RECURSIVE term(_)
RECURSIVE TermLoop(_, _)
RECURSIVE factor(_)
RECURSIVE FactorLoop(_, _)
RECURSIVE unary(_)
RECURSIVE primary(_)

expression(p) == equality(p)

\* while self.match_token(&[BangEqual, EqualEqual]) { ... }
EqualityLoop(p, expr) ==
    Bind(match_token(p, {"BangEqual", "EqualEqual"}), LAMBDA m :
      IF ~m[1] THEN PR(p, TRUE, expr, "", <<>>)
      ELSE Bind(comparison(m[2]), LAMBDA rhs :
             IF ~rhs.ok THEN rhs
             ELSE EqualityLoop(rhs.p, Binary(expr, previous(m[2]), rhs.val))))

equality(p) ==
    Bind(comparison(p), LAMBDA e :
      IF ~e.ok THEN e ELSE EqualityLoop(e.p, e.val))

ComparisonLoop(p, expr) ==
    Bind(match_token(p, {"Greater", "GreaterEqual", "Less", "LessEqual"}),
         LAMBDA m :
      IF ~m[1] THEN PR(p, TRUE, expr, "", <<>>)
      ELSE Bind(term(m[2]), LAMBDA rhs :
             IF ~rhs.ok THEN rhs
             ELSE ComparisonLoop(rhs.p,
                                 Binary(expr, previous(m[2]), rhs.val))))

comparison(p) ==
    Bind(term(p), LAMBDA e :
      IF ~e.ok THEN e ELSE ComparisonLoop(e.p, e.val))

TermLoop(p, expr) ==
    Bind(match_token(p, {"Plus", "Minus"}), LAMBDA m :
      IF ~m[1] THEN PR(p, TRUE, expr, "", <<>>)
      ELSE Bind(factor(m[2]), LAMBDA rhs :
             IF ~rhs.ok THEN rhs
             ELSE TermLoop(rhs.p, Binary(expr, previous(m[2]), rhs.val))))

term(p) ==
    Bind(factor(p), LAMBDA e :
      IF ~e.ok THEN e ELSE TermLoop(e.p, e.val))

FactorLoop(p, expr) ==
    Bind(match_token(p, {"Star", "Slash"}), LAMBDA m :
      IF ~m[1] THEN PR(p, TRUE, expr, "", <<>>)
      ELSE Bind(unary(m[2]), LAMBDA rhs :
             IF ~rhs.ok THEN rhs
             ELSE FactorLoop(rhs.p, Binary(expr, previous(m[2]), rhs.val))))

factor(p) ==
    Bind(unary(p), LAMBDA e :
      IF ~e.ok THEN e ELSE FactorLoop(e.p, e.val))

unary(p) ==
    Bind(match_token(p, {"Bang", "Minus"}), LAMBDA m :
      IF m[1]
      THEN Bind(unary(m[2]), LAMBDA rhs :
             IF ~rhs.ok THEN rhs
             ELSE PR(rhs.p, TRUE, Unary(previous(m[2]), rhs.val), "", <<>>))
      ELSE primary(p))

\* the literal arm of primary: LiteralValue::from_token(self.previous())?
PrimaryLiteral(q) ==
    Bind(from_token(previous(q)), LAMBDA v :
      IF v.ok THEN PR(q, TRUE, Literal(v.val), "", <<>>)
      ELSE PR(q, FALSE, <<>>, v.err, <<>>))

\* the parenthesis arm of primary, after the `(`
PrimaryGroup(q) ==
    Bind(expression(q), LAMBDA e :
      IF ~e.ok THEN e
      ELSE Bind(consume(e.p, "RightParent", "Expected ')' here"), LAMBDA c :
             IF ~c.ok THEN c
             ELSE PR(c.p, TRUE, Grouping(e.val), "", <<>>)))

primary(p) ==
    IF check(p, "LeftParent") THEN PrimaryGroup(PAdvance(p))
    ELSE IF check(p, "Identifier")
    THEN Bind(PAdvance(p), LAMBDA q :
           PR(q, TRUE, Variable(previous(q)), "", <<>>))
    ELSE IF \E t \in {"False", "True", "StringLiteral", "Number", "Nil"} :
               check(p, t)
    THEN PrimaryLiteral(PAdvance(p))
    ELSE PR(p, FALSE, <<>>,
            "Expected expression on line " \o NatToStr(PPeek(p).line_number),
            <<>>)

SemicolonMsg == "Expected ';' after statement"

print_statement(p) ==
    Bind(expression(p), LAMBDA e :
      IF ~e.ok THEN e
      ELSE Bind(consume(e.p, "Semicolon", SemicolonMsg), LAMBDA c :
             IF ~c.ok THEN c
             ELSE PR(c.p, TRUE, StmtPrint(e.val), "", <<>>)))

\* println!("{expression}") comes between the expression and its `;`
expression_statement(p) ==
    Bind(expression(p), LAMBDA e :
      IF ~e.ok THEN e
      ELSE Bind(<<ExprToString(e.val)>>, LAMBDA out :
           Bind(consume(e.p, "Semicolon", SemicolonMsg), LAMBDA c :
             IF ~c.ok THEN [c EXCEPT !.out = out]
             ELSE PR(c.p, TRUE, StmtExpression(e.val), "", out))))

statement(p) ==
    IF check(p, "Print") THEN print_statement(PAdvance(p))
    ELSE expression_statement(p)

\* the initialiser of var_declaration, after the name
VarInitialiser(q) ==
    IF check(q, "Equal") THEN expression(PAdvance(q))
    ELSE PR(q, TRUE, Literal(LvNil), "", <<>>)

var_declaration(p) ==
    Bind(consume(p, "Identifier", "Expected variable name"), LAMBDA name :
      IF ~name.ok THEN name
      ELSE Bind(VarInitialiser(name.p), LAMBDA init :
             IF ~init.ok THEN init
             ELSE Bind(consume(init.p, "Semicolon", SemicolonMsg), LAMBDA c :
                    IF ~c.ok THEN c
                    ELSE PR(c.p, TRUE, StmtVar(name.val, init.val), "", <<>>))))

declaration(p) ==
    IF check(p, "Var") THEN var_declaration(PAdvance(p)) ELSE statement(p)

StatementStart == {"Class", "Fun", "Var", "For", "If", "While", "Print", "Return"}

\* the loop of synchronise
RECURSIVE SyncLoop(_)
SyncLoop(p) ==
    IF p.panicked \/ PIsAtEnd(p) THEN p
    ELSE IF previous(p).token_type = "Semicolon" THEN p
    ELSE IF previous(p).token_type \in StatementStart THEN p
    ELSE SyncLoop(PAdvance(p))

\* a synchronise that discards nothing
synchroniseStaysPut(p) == p

synchronise(p) == SyncLoop(PAdvance(p))

\* errors.join("\n")
RECURSIVE JoinWith(_, _)
JoinWith(msgs, sep) ==
    IF msgs = <<>> THEN ""
    ELSE IF Len(msgs) = 1 THEN Head(msgs)
    ELSE Head(msgs) \o sep \o JoinWith(Tail(msgs), sep)

-----------------------------------------------------------------------------
(* Bounds of the inputs                                                    *)

\* longest source text the scanner specification draws
MaxSrcLen == 4

\* characters of the scanner specification's sources
ScanAlphabet == {"/", "\n", "\"", "@", "a", "1", ".", "="}

\* most tokens, before Eof, of the parser specification's inputs
MaxTokens == 6

\* the tokens of the parser specification's inputs, as the scanner makes
\* them on line 1
ParseAlphabet ==
    {Token("Number", "1", FVal(ParseF64(<<"1">>)), 1),
     Token("Identifier", "x", None, 1),
     Token("Semicolon", ";", None, 1),
     Token("Equal", "=", None, 1),
     Token("Print", "print", None, 1),
     Token("Var", "var", None, 1)}

\* most tokens, before Eof, of the inputs with parentheses and operators
MaxGroupTokens == 5

\* their tokens, as the scanner makes them on line 1
GroupAlphabet ==
    {Token("Number", "1", FVal(ParseF64(<<"1">>)), 1),
     Token("LeftParent", "(", None, 1),
     Token("RightParent", ")", None, 1),
     Token("Minus", "-", None, 1),
     Token("EqualEqual", "==", None, 1),
     Token("Semicolon", ";", None, 1)}

\* the expressions of the expression runs: a op1 b op2 c, written without
\* parentheses ("flat"), as (a op1 b) op2 c ("left") or as a op1 (b op2 c)
\* ("right"); 16777217 is 2^24 + 1
FirstOperands == {1, 2, 3, 16777217}

OtherOperands == {1, 2, 3}

Operators == {"+", "-", "*"}

Exprs ==
    [a : FirstOperands, op1 : Operators, b : OtherOperands, op2 : Operators,
     c : OtherOperands, shape : {"flat", "left", "right"}]

RECURSIVE NatToChars(_)
NatToChars(n) == IF n < 10 THEN <<Digits[n + 1]>>
                 ELSE NatToChars(n \div 10) \o <<Digits[(n % 10) + 1]>>

\* the program that prints the expression
ExprSource(x) ==
    <<"p", "r", "i", "n", "t", " ">>
    \o (IF x.shape = "left" THEN <<"(">> ELSE <<>>)
    \o NatToChars(x.a) \o <<x.op1>>
    \o (IF x.shape = "right" THEN <<"(">> ELSE <<>>)
    \o NatToChars(x.b)
    \o (IF x.shape = "left" THEN <<")">> ELSE <<>>)
    \o <<x.op2>> \o NatToChars(x.c)
    \o (IF x.shape = "right" THEN <<")">> ELSE <<>>)
    \o <<";">>

\* the expressions evaluate is applied to: operands that are literals of
\* every kind of value, 0/0 (a NaN), -0 and an undefined variable, under every
\* operator of BinaryOps and UnaryOps
OpToken(token_type) == Token(token_type, token_type, None, 1)

NumberLiteral(cs) == Literal(LvNumber(F64AsF32(ParseF64(cs))))

EvalOperands ==
    {Literal(LvNil), Literal(LvTrue), Literal(LvFalse),
     NumberLiteral(<<"0">>), NumberLiteral(<<"1">>),
     Literal(LvString(<<>>)), Literal(LvString(<<"1">>)),
     Literal(LvString(<<"a">>)),
     Binary(NumberLiteral(<<"0">>), OpToken("Slash"), NumberLiteral(<<"0">>)),
     Unary(OpToken("Minus"), NumberLiteral(<<"0">>)),
     Variable(Token("Identifier", "u", None, 1))}

BinaryOps == {"EqualEqual", "BangEqual", "Plus", "Less"}

UnaryOps == {"Bang", "Minus"}

EvalExprs ==
    {Binary(l, OpToken(op), r) : l \in EvalOperands, op \in BinaryOps,
                                 r \in EvalOperands}
    \cup {Unary(OpToken(op), r) : op \in UnaryOps, r \in EvalOperands}

\* the trees Display is applied to: leaves of every kind of value, and the
\* nodes over them up to the shape of the tree of tests::printy_print_ast,
\* Binary(Unary(leaf), op, Grouping(leaf))
DisplayLeaves ==
    {NumberLiteral(<<"1", "2", "3">>), NumberLiteral(<<"4", "5", ".", "6", "7">>),
     Literal(LvNil), Literal(LvTrue), Literal(LvString(<<"a">>)),
     Variable(Token("Identifier", "x", None, 1))}

DisplayUnaryOps ==
    {Token("Minus", "-", None, 1), Token("Bang", "!", None, 1)}

DisplayBinaryOps ==
    {Token("Star", "*", None, 1), Token("Plus", "+", None, 1)}

DisplayTrees ==
    DisplayLeaves
    \cup {Unary(op, r) : op \in DisplayUnaryOps, r \in DisplayLeaves}
    \cup {Grouping(e) : e \in DisplayLeaves}
    \cup {Binary(l, op, r) : l \in DisplayLeaves, op \in DisplayBinaryOps,
                             r \in DisplayLeaves}
    \cup {Binary(Unary(Token("Minus", "-", None, 1), l), op, Grouping(r)) :
            l \in DisplayLeaves, op \in DisplayBinaryOps, r \in DisplayLeaves}

\* names and values of the Environment calls
EnvNames == {"x", "y"}

EnvValues ==
    {LvNil, LvTrue, LvNumber(F64AsF32(ParseF64(<<"1">>))), LvString(<<"a">>)}

\* most calls made on one Environment
MaxOps == 4

\* the lines an interactive session reads, each with its newline:
\* var x=1;   var x=2;print y;   print x;   //   @   1 +;
Lines ==
    {<<"v", "a", "r", " ", "x", "=", "1", ";", "\n">>,
     <<"v", "a", "r", " ", "x", "=", "2", ";", "p", "r", "i", "n", "t", " ", "y", ";", "\n">>,
     <<"p", "r", "i", "n", "t", " ", "x", ";", "\n">>,
     <<"/", "/", "\n">>,
     <<"@", "\n">>,
     <<"1", " ", "+", ";", "\n">>}

\* most lines one interactive session reads
MaxLines == 3

SeqsUpTo(S, n) == UNION {[1..k -> S] : k \in 0..n}

\* the statements the programs of a run are made of: print 1;  1;  var x=2;
\* print x;  print -"a";  x;  var y=x;  and the unrecognised character @
Snippets ==
    {<<"p", "r", "i", "n", "t", " ", "1", ";">>,
     <<"1", ";">>,
     <<"v", "a", "r", " ", "x", "=", "2", ";">>,
     <<"p", "r", "i", "n", "t", " ", "x", ";">>,
     <<"p", "r", "i", "n", "t", " ", "-", "\"", "a", "\"", ";">>,
     <<"x", ";">>,
     <<"v", "a", "r", " ", "y", "=", "x", ";">>,
     <<"@">>}

\* most statements of a program
MaxStmts == 3

RECURSIVE Concat(_)
Concat(ss) == IF ss = <<>> THEN <<>> ELSE Head(ss) \o Concat(Tail(ss))

Programs == {Concat(ss) : ss \in SeqsUpTo(Snippets, MaxStmts)}

-----------------------------------------------------------------------------
(* State outside the stage a specification runs                            *)

InterpreterNew == [environment |-> EnvironmentNew]

HistInit ==
    [pre      |-> ScannerNew(<<>>),  \* scanner before the last scan_token
     stepped  |-> FALSE,             \* a scan_token call was made
     errs     |-> <<>>,              \* errors before the last scan_token
     ppre     |-> ParserNew(<<>>),   \* parser before the last declaration
     pstepped |-> FALSE,             \* a declaration call was made
     pok      |-> TRUE,              \* the last declaration call succeeded
     nlines   |-> 0,                 \* lines read by run_prompt
     env0     |-> EnvironmentNew,    \* environment when the run began
     out0     |-> <<>>,              \* stdout when interpret began
     input    |-> None,              \* what the source was built from
     log      |-> <<>>,              \* the define calls made, in order
     last     |-> None,              \* the last Environment call
     nops     |-> 0,                 \* Environment calls made
     envDone  |-> EnvironmentNew]    \* environment when the last line was done

-----------------------------------------------------------------------------
(* lexer.rs: scan_tokens, one action per iteration of its loop             *)

\* while !self.is_at_end() { self.start = self.current; scan_token() ... }
ScanToken ==
    /\ pc = "scan"
    /\ ~ScIsAtEnd(scanner)
    /\ \E s0 \in {[scanner EXCEPT !.start = scanner.current]} :
       \E r \in {scan_token(s0)} :
          /\ scanner' = r.s
          /\ errors' = IF ~r.ok /\ ~r.s.panicked THEN Append(errors, r.err)
                       ELSE errors
          /\ pc' = IF r.s.panicked THEN "panic" ELSE "scan"
          /\ hist' = [hist EXCEPT !.pre = s0, !.stepped = TRUE,
                                  !.errs = errors]
    /\ UNCHANGED <<mode, source, scanResult, parser, statements, perrors,
                   parseResult, interpreter, stmtIndex, value, runResult,
                   stdout>>

\* the rest of scan_tokens: the Eof token and the result
ScanFinish ==
    /\ pc = "scan"
    /\ ScIsAtEnd(scanner)
    /\ LET toks == Append(scanner.tokens, Token("Eof", "", None, scanner.line))
       IN  /\ scanner' = [scanner EXCEPT !.tokens = toks]
           /\ scanResult' = IF errors # <<>> THEN Err(JoinLines(errors))
                            ELSE Ok(toks)
    /\ pc' = "scanned"
    /\ UNCHANGED <<mode, source, errors, parser, statements, perrors,
                   parseResult, interpreter, stmtIndex, value, runResult,
                   stdout, hist>>

-----------------------------------------------------------------------------
(* parser.rs: parse, one action per iteration of its loop                  *)

\* while !self.is_at_end() { match self.declaration() { ... } }
ParseDeclaration ==
    /\ pc = "parse"
    /\ ~PIsAtEnd(parser)
    /\ \E r \in {declaration(parser)} :
       \E q \in {IF r.ok THEN r.p ELSE synchronise(r.p)} :
          /\ parser' = q
          /\ statements' = IF r.ok THEN Append(statements, r.val)
                           ELSE statements
          /\ perrors' = IF r.ok THEN perrors ELSE Append(perrors, r.err)
          /\ stdout' = stdout \o [i \in 1..Len(r.out) |-> r.out[i] \o "\n"]
          /\ pc' = IF q.panicked THEN "panic" ELSE "parse"
          /\ hist' = [hist EXCEPT !.ppre = parser, !.pstepped = TRUE,
                                  !.pok = r.ok]
    /\ UNCHANGED <<mode, source, scanner, errors, scanResult, parseResult,
                   interpreter, stmtIndex, value, runResult>>

\* the rest of parse: the result
ParseFinish ==
    /\ pc = "parse"
    /\ PIsAtEnd(parser)
    /\ parseResult' = IF perrors = <<>> THEN Ok(statements)
                      ELSE Err(JoinWith(perrors, "\n"))
    /\ pc' = "parsed"
    /\ UNCHANGED <<mode, source, scanner, errors, scanResult, parser,
                   statements, perrors, interpreter, stmtIndex, value,
                   runResult, stdout, hist>>

-----------------------------------------------------------------------------
(* interpreter.rs: interpret, one action per iteration of its loop         *)

\* the expression a statement evaluates
StmtExpr(stmt) == IF stmt.type = "Var" THEN stmt.initialiser
                  ELSE stmt.expression

\* interpret that skips a statement whose evaluation fails and goes on
ExecStatementSkipsFailure ==
    /\ pc = "interpret"
    /\ stmtIndex < Len(statements)
    /\ \E stmt \in {statements[stmtIndex + 1]} :
       \E r \in {evaluate(StmtExpr(stmt), interpreter.environment)} :
          /\ value' = IF r.ok THEN r.val ELSE value
          /\ stdout' = IF r.ok /\ stmt.type = "Print"
                       THEN Append(stdout, LiteralValueToString(r.val) \o "\n")
                       ELSE stdout
          /\ interpreter' =
                IF r.ok /\ stmt.type = "Var"
                THEN [interpreter EXCEPT !.environment =
                        define(interpreter.environment, stmt.name.lexeme, r.val)]
                ELSE interpreter
          /\ stmtIndex' = stmtIndex + 1
          /\ UNCHANGED <<pc, runResult>>
    /\ UNCHANGED <<mode, source, scanner, errors, scanResult, parser,
                   statements, perrors, parseResult, hist>>

\* for statement in statements { match statement { ... } }: a failing
\* evaluate returns from interpret, and so from run, with its error
ExecStatement ==
    /\ pc = "interpret"
    /\ stmtIndex < Len(statements)
    /\ \E stmt \in {statements[stmtIndex + 1]} :
       \E r \in {evaluate(StmtExpr(stmt), interpreter.environment)} :
          IF ~r.ok
          THEN /\ runResult' = Err(r.err)
               /\ pc' = "returned"
               /\ UNCHANGED <<interpreter, stmtIndex, value, stdout>>
          ELSE /\ value' = r.val
               /\ stdout' = IF stmt.type = "Print"
                            THEN Append(stdout,
                                        LiteralValueToString(r.val) \o "\n")
                            ELSE stdout
               /\ interpreter' =
                     IF stmt.type = "Var"
                     THEN [interpreter EXCEPT !.environment =
                             define(interpreter.environment,
                                    stmt.name.lexeme, r.val)]
                     ELSE interpreter
               /\ stmtIndex' = stmtIndex + 1
               /\ UNCHANGED <<pc, runResult>>
    /\ UNCHANGED <<mode, source, scanner, errors, scanResult, parser,
                   statements, perrors, parseResult, hist>>

\* the end of the loop: Ok(()), which run returns
InterpretFinish ==
    /\ pc = "interpret"
    /\ stmtIndex = Len(statements)
    /\ runResult' = Ok(<<>>)
    /\ pc' = "returned"
    /\ UNCHANGED <<mode, source, scanner, errors, scanResult, parser,
                   statements, perrors, parseResult, interpreter, stmtIndex,
                   value, stdout, hist>>

-----------------------------------------------------------------------------
(* main.rs: run, run_prompt, run_file, main                                *)

\* let tokens = scanner.scan_tokens()?; let mut parser = Parser::new(tokens);
RunScanned ==
    /\ pc = "scanned"
    /\ mode \in {"file", "prompt"}
    /\ IF scanResult.ok
       THEN /\ parser' = ParserNew(scanResult.val)
            /\ pc' = "parse"
            /\ UNCHANGED runResult
       ELSE /\ runResult' = Err(scanResult.err)
            /\ pc' = "returned"
            /\ UNCHANGED parser
    /\ UNCHANGED <<mode, source, scanner, errors, scanResult, statements,
                   perrors, parseResult, interpreter, stmtIndex, value,
                   stdout, hist>>

\* let statements = parser.parse()?; interpreter.interpret(statements)
RunParsed ==
    /\ pc = "parsed"
    /\ mode \in {"file", "prompt"}
    /\ IF parseResult.ok
       THEN /\ pc' = "interpret"
            /\ stmtIndex' = 0
            /\ hist' = [hist EXCEPT !.out0 = stdout]
            /\ UNCHANGED runResult
       ELSE /\ runResult' = Err(parseResult.err)
            /\ pc' = "returned"
            /\ UNCHANGED <<stmtIndex, hist>>
    /\ UNCHANGED <<mode, source, scanner, errors, scanResult, parser,
                   statements, perrors, parseResult, interpreter, value,
                   stdout>>

Whitespace == {" ", "\t", "\n", "\r"}

\* str::trim
RECURSIVE Trim(_)
Trim(cs) == IF cs = <<>> THEN cs
            ELSE IF Head(cs) \in Whitespace THEN Trim(Tail(cs))
            ELSE IF cs[Len(cs)] \in Whitespace
                 THEN Trim(SubSeq(cs, 1, Len(cs) - 1))
            ELSE cs

\* one iteration of run_prompt's loop up to the call of run: the prompt is
\* written, a line is read and trimmed, run makes its scanner.  (stdin and
\* stdout are taken to work: flush and read_line return Ok.)
ReadLine(line) ==
    /\ pc = "prompt"
    /\ hist.nlines < MaxLines
    /\ stdout' = Append(stdout, "> ")
    /\ source' = Trim(line)
    /\ scanner' = ScannerNew(Trim(line))
    /\ errors' = <<>>
    /\ scanResult' = NoResult
    /\ parser' = ParserNew(<<>>)
    /\ statements' = <<>>
    /\ perrors' = <<>>
    /\ parseResult' = NoResult
    /\ runResult' = NoResult
    /\ stmtIndex' = 0
    /\ pc' = "scan"
    /\ hist' = [hist EXCEPT !.nlines = hist.nlines + 1,
                            !.env0 = interpreter.environment,
                            !.input = line]
    /\ UNCHANGED <<mode, interpreter, value>>

\* match run(..) { Ok(_) => (), Err(msg) => println!("{}", msg) }, and the
\* loop goes round
LineDone ==
    /\ pc = "returned"
    /\ mode = "prompt"
    /\ stdout' = IF runResult.ok THEN stdout
                 ELSE Append(stdout, runResult.err \o "\n")
    /\ pc' = "prompt"
    /\ hist' = [hist EXCEPT !.envDone = interpreter.environment]
    /\ UNCHANGED <<mode, source, scanner, errors, scanResult, parser,
                   statements, perrors, parseResult, interpreter, stmtIndex,
                   value, runResult>>

\* main after run_file: Err(msg) => { println!("{}", msg); exit(1) }
MainExit ==
    /\ pc = "returned"
    /\ mode = "file"
    /\ stdout' = IF runResult.ok THEN stdout
                 ELSE Append(stdout, runResult.err \o "\n")
    /\ pc' = "exit"
    /\ UNCHANGED <<mode, source, scanner, errors, scanResult, parser,
                   statements, perrors, parseResult, interpreter, stmtIndex,
                   value, runResult, hist>>

-----------------------------------------------------------------------------
(* Initial states                                                          *)

\* Scanner::new(source) for every source within the bounds
InitScan ==
    /\ mode = "scan"
    /\ pc = "scan"
    /\ source \in SeqsUpTo(ScanAlphabet, MaxSrcLen)
    /\ scanner = ScannerNew(source)
    /\ errors = <<>>
    /\ scanResult = NoResult
    /\ parser = ParserNew(<<>>)
    /\ statements = <<>>
    /\ perrors = <<>>
    /\ parseResult = NoResult
    /\ interpreter = InterpreterNew
    /\ stmtIndex = 0
    /\ value = LvNil
    /\ runResult = NoResult
    /\ stdout = <<>>
    /\ hist = HistInit

NextScan == ScanToken \/ ScanFinish

SpecScan == InitScan /\ [][NextScan]_vars

\* Parser::new(tokens) for every token sequence within the bounds that ends
\* with the Eof token
InitParse ==
    /\ mode = "parse"
    /\ pc = "parse"
    /\ source = <<>>
    /\ scanner = ScannerNew(<<>>)
    /\ errors = <<>>
    /\ scanResult = NoResult
    /\ \E ts \in SeqsUpTo(ParseAlphabet, MaxTokens) :
          parser = ParserNew(Append(ts, Token("Eof", "", None, 1)))
    /\ statements = <<>>
    /\ perrors = <<>>
    /\ parseResult = NoResult
    /\ interpreter = InterpreterNew
    /\ stmtIndex = 0
    /\ value = LvNil
    /\ runResult = NoResult
    /\ stdout = <<>>
    /\ hist = HistInit

NextParse == ParseDeclaration \/ ParseFinish

SpecParse == InitParse /\ [][NextParse]_vars

\* Parser::new on a token sequence with parentheses and operators
InitParseGroup ==
    /\ mode = "parse"
    /\ pc = "parse"
    /\ source = <<>>
    /\ scanner = ScannerNew(<<>>)
    /\ errors = <<>>
    /\ scanResult = NoResult
    /\ \E ts \in SeqsUpTo(GroupAlphabet, MaxGroupTokens) :
          parser = ParserNew(Append(ts, Token("Eof", "", None, 1)))
    /\ statements = <<>>
    /\ perrors = <<>>
    /\ parseResult = NoResult
    /\ interpreter = InterpreterNew
    /\ stmtIndex = 0
    /\ value = LvNil
    /\ runResult = NoResult
    /\ stdout = <<>>
    /\ hist = HistInit

\* parse on the token sequences of both alphabets
InitParseAll == InitParse \/ InitParseGroup

SpecParseAll == InitParseAll /\ [][NextParse]_vars

\* run_file on every program within the bounds (the file is read)
InitRun ==
    /\ mode = "file"
    /\ pc = "scan"
    /\ source \in Programs
    /\ scanner = ScannerNew(source)
    /\ errors = <<>>
    /\ scanResult = NoResult
    /\ parser = ParserNew(<<>>)
    /\ statements = <<>>
    /\ perrors = <<>>
    /\ parseResult = NoResult
    /\ interpreter = InterpreterNew
    /\ stmtIndex = 0
    /\ value = LvNil
    /\ runResult = NoResult
    /\ stdout = <<>>
    /\ hist = HistInit

NextRun ==
    \/ ScanToken
    \/ ScanFinish
    \/ RunScanned
    \/ ParseDeclaration
    \/ ParseFinish
    \/ RunParsed
    \/ ExecStatement
    \/ InterpretFinish
    \/ MainExit

SpecRun == InitRun /\ [][NextRun]_vars

\* Environment::define called on the interpreter's environment
EnvDefine(name, v) ==
    /\ pc = "env"
    /\ hist.nops < MaxOps
    /\ interpreter' = [interpreter EXCEPT !.environment =
                          define(interpreter.environment, name, v)]
    /\ hist' = [hist EXCEPT !.nops = hist.nops + 1,
                            !.log = Append(hist.log, [name |-> name, v |-> v]),
                            !.last = [op |-> "define", name |-> name,
                                      env |-> interpreter.environment]]
    /\ UNCHANGED <<mode, pc, source, scanner, errors, scanResult, parser,
                   statements, perrors, parseResult, stmtIndex, value,
                   runResult, stdout>>

\* Environment::get called on the interpreter's environment
EnvGet(name) ==
    /\ pc = "env"
    /\ hist.nops < MaxOps
    /\ runResult' = get(interpreter.environment, name)
    /\ hist' = [hist EXCEPT !.nops = hist.nops + 1,
                            !.last = [op |-> "get", name |-> name,
                                      env |-> interpreter.environment]]
    /\ UNCHANGED <<mode, pc, source, scanner, errors, scanResult, parser,
                   statements, perrors, parseResult, interpreter, stmtIndex,
                   value, stdout>>

\* Environment::new()
InitEnv ==
    /\ mode = "env"
    /\ pc = "env"
    /\ source = <<>>
    /\ scanner = ScannerNew(<<>>)
    /\ errors = <<>>
    /\ scanResult = NoResult
    /\ parser = ParserNew(<<>>)
    /\ statements = <<>>
    /\ perrors = <<>>
    /\ parseResult = NoResult
    /\ interpreter = InterpreterNew
    /\ stmtIndex = 0
    /\ value = LvNil
    /\ runResult = NoResult
    /\ stdout = <<>>
    /\ hist = HistInit

NextEnv ==
    \/ \E name \in EnvNames, v \in EnvValues : EnvDefine(name, v)
    \/ \E name \in EnvNames : EnvGet(name)

SpecEnv == InitEnv /\ [][NextEnv]_vars

\* main with no argument: run_prompt, let mut interpreter = Interpreter::new()
Init ==
    /\ mode = "prompt"
    /\ pc = "prompt"
    /\ source = <<>>
    /\ scanner = ScannerNew(<<>>)
    /\ errors = <<>>
    /\ scanResult = NoResult
    /\ parser = ParserNew(<<>>)
    /\ statements = <<>>
    /\ perrors = <<>>
    /\ parseResult = NoResult
    /\ interpreter = InterpreterNew
    /\ stmtIndex = 0
    /\ value = LvNil
    /\ runResult = NoResult
    /\ stdout = <<>>
    /\ hist = HistInit

Next ==
    \/ \E line \in Lines : ReadLine(line)
    \/ ScanToken
    \/ ScanFinish
    \/ RunScanned
    \/ ParseDeclaration
    \/ ParseFinish
    \/ RunParsed
    \/ ExecStatement
    \/ InterpretFinish
    \/ LineDone

Spec == Init /\ [][Next]_vars

\* run_file on the program that prints one expression within the bounds
InitExpr ==
    /\ mode = "file"
    /\ pc = "scan"
    /\ \E x \in Exprs :
          /\ source = ExprSource(x)
          /\ scanner = ScannerNew(ExprSource(x))
          /\ hist = [HistInit EXCEPT !.input = x]
    /\ errors = <<>>
    /\ scanResult = NoResult
    /\ parser = ParserNew(<<>>)
    /\ statements = <<>>
    /\ perrors = <<>>
    /\ parseResult = NoResult
    /\ interpreter = InterpreterNew
    /\ stmtIndex = 0
    /\ value = LvNil
    /\ runResult = NoResult
    /\ stdout = <<>>

SpecExpr == InitExpr /\ [][NextRun]_vars

\* Expr::evaluate called on the expression, in the interpreter's environment
Evaluate ==
    /\ pc = "eval"
    /\ \E r \in {evaluate(hist.input, interpreter.environment)} :
          /\ runResult' = r
          /\ value' = IF r.ok THEN r.val ELSE value
    /\ pc' = "evaluated"
    /\ UNCHANGED <<mode, source, scanner, errors, scanResult, parser,
                   statements, perrors, parseResult, interpreter, stmtIndex,
                   stdout, hist>>

\* an expression within the bounds and an empty environment
InitEval ==
    /\ mode = "eval"
    /\ pc = "eval"
    /\ source = <<>>
    /\ scanner = ScannerNew(<<>>)
    /\ errors = <<>>
    /\ scanResult = NoResult
    /\ parser = ParserNew(<<>>)
    /\ statements = <<>>
    /\ perrors = <<>>
    /\ parseResult = NoResult
    /\ interpreter = InterpreterNew
    /\ stmtIndex = 0
    /\ value = LvNil
    /\ runResult = NoResult
    /\ stdout = <<>>
    /\ \E x \in EvalExprs : hist = [HistInit EXCEPT !.input = x]

NextEval == Evaluate

SpecEval == InitEval /\ [][NextEval]_vars

\* ast.to_string(): Display for Expr applied to the tree, the text kept in
\* stdout; the same tree may be rendered a second time
to_string ==
    /\ pc \in {"display", "displayed"}
    /\ stdout' = Append(stdout, ExprToString(hist.input))
    /\ pc' = IF pc = "display" THEN "displayed" ELSE "displayedTwice"
    /\ UNCHANGED <<mode, source, scanner, errors, scanResult, parser,
                   statements, perrors, parseResult, interpreter, stmtIndex,
                   value, runResult, hist>>

\* a tree within the bounds, nothing rendered yet
InitDisplay ==
    /\ mode = "display"
    /\ pc = "display"
    /\ source = <<>>
    /\ scanner = ScannerNew(<<>>)
    /\ errors = <<>>
    /\ scanResult = NoResult
    /\ parser = ParserNew(<<>>)
    /\ statements = <<>>
    /\ perrors = <<>>
    /\ parseResult = NoResult
    /\ interpreter = InterpreterNew
    /\ stmtIndex = 0
    /\ value = LvNil
    /\ runResult = NoResult
    /\ stdout = <<>>
    /\ \E x \in DisplayTrees : hist = [HistInit EXCEPT !.input = x]

NextDisplay == to_string

SpecDisplay == InitDisplay /\ [][NextDisplay]_vars

-----------------------------------------------------------------------------
(* Properties of the scanner (under SpecScan)                              *)

\* the scan_token call that was made last started at `//`
StartsComment(s) ==
    /\ s.start + 2 <= Len(s.source)
    /\ s.source[s.start + 1] = "/"
    /\ s.source[s.start + 2] = "/"

\* position of the first newline at or after position i, or the end
RECURSIVE LineEnd(_, _)
LineEnd(src, i) == IF i >= Len(src) THEN Len(src)
                   ELSE IF src[i + 1] = "\n" THEN i
                   ELSE LineEnd(src, i + 1)

\* C1: a scan_token call that starts at `//` discards the comment: it does
\* not panic, adds no token (no Slash, nothing for the comment text) and
\* leaves the cursor at the next newline, or at the end of the input.
C1_LineCommentDiscarded ==
    (hist.stepped /\ pc # "scanned" /\ StartsComment(hist.pre)) =>
        /\ pc # "panic"
        /\ scanner.tokens = hist.pre.tokens
        /\ scanner.current = LineEnd(source, hist.pre.start)

\* the scan_token call that was made last started at a `"` that no later
\* `"` closes
Unterminated(s) ==
    /\ s.source[s.start + 1] = "\""
    /\ \A i \in (s.start + 2)..Len(s.source) : s.source[i] # "\""

\* C3: a scan_token call that starts at an unterminated string adds exactly
\* one error, which names the line of the opening quote; the scan does not
\* panic and returns a failure.
C3_UnterminatedStringLine ==
    (hist.stepped /\ Unterminated(hist.pre)) =>
        /\ pc # "panic"
        /\ errors = Append(hist.errs,
                "unterminated string lol :/ on line " \o NatToStr(hist.pre.line))
        /\ pc = "scanned" => ~scanResult.ok

\* the characters scan_token has an arm for
Recognised(c) ==
    \/ c \in {"(", ")", "{", "}", ",", ".", "-", "+", ";", "*"}
    \/ c \in {"=", "!", "<", ">", "/", " ", "\r", "\t", "\n", "\""}
    \/ is_ascii_digit(c)
    \/ is_alpha(c)

\* C4: a scan_token call that starts at an unrecognised character adds the
\* one message naming it and its line and goes on with the next character;
\* the whole input is scanned (the call returns), and it fails if and only
\* if an error was found, returning all messages joined in order.
C4_ScannerContinuesAfterError ==
    /\ (hist.stepped /\ pc # "scanned"
            /\ ~Recognised(hist.pre.source[hist.pre.start + 1])) =>
          /\ errors = Append(hist.errs,
                UnrecognisedMsg(hist.pre.source[hist.pre.start + 1],
                                hist.pre.line))
          /\ scanner.current = hist.pre.start + 1
    /\ errors # <<>> => pc # "panic"
    /\ pc = "scanned" =>
          /\ scanner.current = Len(source)
          /\ scanResult.ok <=> errors = <<>>
          /\ ~scanResult.ok => scanResult.err = JoinLines(errors)

-----------------------------------------------------------------------------
(* Properties of the parser (under SpecParse)                              *)

\* the statements of a token sequence: each ends with its `;`, or before the
\* next statement-starting keyword; cur is the statement being collected
RECURSIVE SplitStatements(_, _)
SplitStatements(ts, cur) ==
    IF ts = <<>> THEN (IF cur = <<>> THEN <<>> ELSE <<cur>>)
    ELSE LET t == Head(ts)
         IN  IF t.token_type = "Semicolon"
             THEN <<Append(cur, t)>> \o SplitStatements(Tail(ts), <<>>)
             ELSE IF t.token_type \in StatementStart /\ cur # <<>>
             THEN <<cur>> \o SplitStatements(Tail(ts), <<t>>)
             ELSE SplitStatements(Tail(ts), Append(cur, t))

\* one statement is malformed when the grammar's declaration rule does not
\* derive exactly its tokens
Malformed(seg) ==
    LET r == declaration(ParserNew(Append(seg, Token("Eof", "", None, 1))))
    IN  ~(r.ok /\ PIsAtEnd(r.p))

MalformedCount(ts) ==
    Cardinality({i \in 1..Len(SplitStatements(ts, <<>>)) :
                    Malformed(SplitStatements(ts, <<>>)[i])})

\* C2: parse returns as many messages as the token sequence has malformed
\* statements (none: it succeeds), one error per broken statement.
C2_OneErrorPerBrokenStatement ==
    pc = "parsed" =>
        LET n == MalformedCount(SubSeq(parser.tokens, 1, Len(parser.tokens) - 1))
        IN  /\ parseResult.ok <=> n = 0
            /\ Len(perrors) = n
            /\ n > 0 => parseResult.err = JoinWith(perrors, "\n")

-----------------------------------------------------------------------------
(* Properties of a run (under SpecRun)                                     *)

\* C5: only Print statements write to standard output: scanning and parsing
\* write nothing, and while interpret runs the output holds exactly one line
\* per Print statement executed so far (an expression statement adds none).
C5_OnlyPrintWrites ==
    /\ pc \in {"scan", "scanned", "parse", "parsed"} => stdout = <<>>
    /\ pc = "interpret" =>
          Len(stdout) = Cardinality({i \in 1..stmtIndex :
                                        statements[i].type = "Print"})

\* what the claim says interpret leaves behind: the bindings and the lines of
\* the statements before the first one whose evaluation fails, with that
\* statement's error as the result, and nothing of it or of later statements
RECURSIVE Effects(_, _, _)
Effects(stmts, env, out) ==
    IF stmts = <<>>
    THEN [environment |-> env, out |-> out, result |-> Ok(<<>>)]
    ELSE Bind(evaluate(StmtExpr(Head(stmts)), env), LAMBDA r :
           IF ~r.ok
           THEN [environment |-> env, out |-> out, result |-> Err(r.err)]
           ELSE Effects(Tail(stmts),
                        IF Head(stmts).type = "Var"
                        THEN define(env, Head(stmts).name.lexeme, r.val)
                        ELSE env,
                        IF Head(stmts).type = "Print"
                        THEN Append(out, LiteralValueToString(r.val) \o "\n")
                        ELSE out))

\* interpret was called and has returned
InterpretReturned == pc = "returned" /\ parseResult.ok

\* C6: interpret runs the statements in order and stops at the first whose
\* evaluation fails: while it runs, and when it has returned, environment
\* and output are those of the statements before the first failing one, the
\* result is that statement's error, and no later statement has run.
C6_InterpretStopsAtFirstFailure ==
    /\ pc = "interpret" =>
          Bind(Effects(SubSeq(statements, 1, stmtIndex), hist.env0, hist.out0),
               LAMBDA ref :
                  /\ ref.result.ok
                  /\ interpreter.environment = ref.environment
                  /\ stdout = ref.out)
    /\ InterpretReturned =>
          Bind(Effects(statements, hist.env0, hist.out0), LAMBDA ref :
                  /\ runResult = ref.result
                  /\ interpreter.environment = ref.environment
                  /\ stdout = ref.out
                  /\ runResult.ok <=> stmtIndex = Len(statements)
                  /\ ~runResult.ok =>
                        ~evaluate(StmtExpr(statements[stmtIndex + 1]),
                                  interpreter.environment).ok)

\* interpret has failed at a statement that follows a declaration which took
\* effect and that a Print statement follows
C6_Witness ==
    /\ InterpretReturned
    /\ ~runResult.ok
    /\ stmtIndex >= 1
    /\ interpreter.environment # hist.env0
    /\ stmtIndex + 2 <= Len(statements)
    /\ statements[stmtIndex + 2].type = "Print"

-----------------------------------------------------------------------------
(* Properties of the environment (under SpecEnv)                           *)

\* what get(name) is to return after the define calls of log: the value of
\* the most recent define of that name, or the undeclared-variable error
RECURSIVE Expected(_, _)
Expected(log, name) ==
    IF log = <<>> THEN Err("Variable " \o name \o " not declared yet!")
    ELSE IF log[Len(log)].name = name THEN Ok(log[Len(log)].v)
    ELSE Expected(SubSeq(log, 1, Len(log) - 1), name)

\* C7: after any sequence of define and get calls, get(n) returns the value
\* of the most recent define(n, v), or fails naming n if n was never
\* defined; get leaves the mapping as it was; define changes no binding but
\* its own and removes none.
C7_EnvironmentDefineGet ==
    /\ \A n \in EnvNames :
          get(interpreter.environment, n) = Expected(hist.log, n)
    /\ (hist.last # None /\ hist.last.op = "get") =>
          /\ runResult = Expected(hist.log, hist.last.name)
          /\ interpreter.environment = hist.last.env
    /\ (hist.last # None /\ hist.last.op = "define") =>
          /\ hist.last.name \in DOMAIN interpreter.environment.values
          /\ \A m \in DOMAIN hist.last.env.values :
                /\ m \in DOMAIN interpreter.environment.values
                /\ m # hist.last.name =>
                      interpreter.environment.values[m] = hist.last.env.values[m]

\* a get of a name that was defined twice, with different values, has
\* returned
C7_Witness ==
    /\ hist.last # None
    /\ hist.last.op = "get"
    /\ runResult.ok
    /\ \E i, j \in 1..Len(hist.log) :
          /\ i < j
          /\ hist.log[i].name = hist.last.name
          /\ hist.log[j].name = hist.last.name
          /\ hist.log[i].v # hist.log[j].v

-----------------------------------------------------------------------------
(* Properties of an interactive session (under Spec)                       *)

\* C8: one environment is shared by all lines of a session: a line starts
\* with the environment the line before it left; no line ends the session;
\* and when the run of a line fails, every binding made by earlier lines is
\* still there with its value.
C8_SessionSharesEnvironment ==
    /\ pc \in {"scan", "scanned", "parse", "parsed"} =>
          interpreter.environment = hist.envDone
    /\ pc # "panic"
    /\ (pc = "returned" /\ ~runResult.ok) =>
          \A n \in DOMAIN hist.env0.values :
             /\ n \in DOMAIN interpreter.environment.values
             /\ interpreter.environment.values[n] = hist.env0.values[n]

-----------------------------------------------------------------------------
(* Properties of expression runs (under SpecExpr)                          *)

\* x op y on integers
IntOp(x, op, y) ==
    CASE op = "+" -> x + y
      [] op = "-" -> x - y
      [] op = "*" -> x * y

\* the value of the expression under the grammar's precedence: * binds
\* tighter than + and -, equal precedence groups left to right, parentheses
\* override both.  All operands and results are integers below 2^53, so
\* this is also the result of IEEE double arithmetic.
ExactValue(x) ==
    IF x.shape = "right" \/ (x.shape = "flat" /\ x.op2 = "*" /\ x.op1 # "*")
    THEN IntOp(x.a, x.op1, IntOp(x.b, x.op2, x.c))
    ELSE IntOp(IntOp(x.a, x.op1, x.b), x.op2, x.c)

\* the number f (a finite m * 2^e) is the integer n
NumberIs(f, n) ==
    /\ f.cls = "fin"
    /\ IF f.m = 0 THEN n = 0
       ELSE /\ f.neg <=> n < 0
            /\ LET abs == IF n < 0 THEN 0 - n ELSE n
               IN  IF f.e >= 0 THEN f.m * Pow2(f.e) = abs
                   ELSE f.m = abs * Pow2(0 - f.e)

\* C9: scan -> parse -> evaluate of a valid Number expression gives the
\* numerically correct double result under the grammar's precedence.
C9_NumericallyCorrect ==
    pc = "exit" =>
        /\ runResult.ok
        /\ value.kind = "Number"
        /\ NumberIs(value.f, ExactValue(hist.input))

-----------------------------------------------------------------------------
(* Properties of evaluate (under SpecEval)                                 *)

\* the Binary expression that was evaluated has operator op and operands
\* that both evaluate successfully
EvaluatedBinary(op) ==
    /\ pc = "evaluated"
    /\ hist.input.type = "Binary"
    /\ hist.input.operator.token_type = op
    /\ evaluate(hist.input.left, interpreter.environment).ok
    /\ evaluate(hist.input.right, interpreter.environment).ok

\* two runtime values are the same: of one kind and, for numbers, equal as
\* IEEE numbers (so a NaN differs from itself), for strings, the same text
SameValue(l, r) ==
    /\ l.kind = r.kind
    /\ l.kind = "Number" => F32Eq(l.f, r.f)
    /\ l.kind = "String" => l.s = r.s

\* C10: == and != are total: on operands that evaluate successfully the
\* result is True or False, never an error; == is True exactly when the two
\* values are the same (values of different kinds are not; nil and nil
\* are), and != is the negation of ==.
C10_EqualityTotal ==
    \A op \in {"EqualEqual", "BangEqual"} :
       EvaluatedBinary(op) =>
          Bind(<<evaluate(hist.input.left, interpreter.environment).val,
                 evaluate(hist.input.right, interpreter.environment).val>>,
               LAMBDA lr :
                  /\ runResult.ok
                  /\ runResult.val \in {LvTrue, LvFalse}
                  /\ (runResult.val = LvTrue)
                        <=> (SameValue(lr[1], lr[2]) <=> op = "EqualEqual")
                  /\ evaluate([hist.input EXCEPT !.operator =
                                  OpToken(IF op = "EqualEqual" THEN "BangEqual"
                                          ELSE "EqualEqual")],
                              interpreter.environment)
                        = Ok(not(runResult.val)))

\* 1 == "1" was evaluated and is False
C10_Witness ==
    /\ EvaluatedBinary("EqualEqual")
    /\ hist.input.left = NumberLiteral(<<"1">>)
    /\ hist.input.right = Literal(LvString(<<"1">>))
    /\ runResult = Ok(LvFalse)

-----------------------------------------------------------------------------
(* Properties of unary ! (under SpecEval)                                  *)

\* the Unary expression that was evaluated has operator op and an operand
\* that evaluates successfully
EvaluatedUnary(op) ==
    /\ pc = "evaluated"
    /\ hist.input.type = "Unary"
    /\ hist.input.operator.token_type = op
    /\ evaluate(hist.input.right, interpreter.environment).ok

\* the truthiness-by-value table: the values whose negation is True
NegatesToTrue(v) ==
    \/ v.kind \in {"False", "Nil"}
    \/ v.kind = "Number" /\ F32IsZero(v.f)
    \/ v.kind = "String" /\ Len(v.s) = 0

\* C11: unary ! never fails on an operand value and follows the
\* truthiness-by-value table: False and Nil give True, Number 0 gives True
\* and any other number False, the empty string gives True and any other
\* string False, True gives False; the result is always True or False.
C11_NotTruthiness ==
    EvaluatedUnary("Bang") =>
       Bind(evaluate(hist.input.right, interpreter.environment).val,
            LAMBDA v :
               /\ runResult.ok
               /\ runResult.val \in {LvTrue, LvFalse}
               /\ (runResult.val = LvTrue) <=> NegatesToTrue(v))

\* !"" was evaluated and is True
C11_Witness ==
    /\ EvaluatedUnary("Bang")
    /\ hist.input.right = Literal(LvString(<<>>))
    /\ runResult = Ok(LvTrue)

-----------------------------------------------------------------------------
(* Properties of Display for Expr (under SpecDisplay)                      *)

\* the tree holds no Variable node
RECURSIVE VariableFree(_)
VariableFree(x) ==
    CASE x.type = "Binary" -> VariableFree(x.left) /\ VariableFree(x.right)
      [] x.type = "Grouping" -> VariableFree(x.expression)
      [] x.type = "Unary" -> VariableFree(x.right)
      [] x.type = "Literal" -> TRUE
      [] x.type = "Variable" -> FALSE

\* the text of a literal's value: the number as the shortest decimal that
\* reads back as it, a string as its characters, true and nil as their names
ValueText(x) ==
    CASE x = NumberLiteral(<<"1", "2", "3">>) -> "123"
      [] x = NumberLiteral(<<"4", "5", ".", "6", "7">>) -> "45.67"
      [] x = Literal(LvNil) -> "nil"
      [] x = Literal(LvTrue) -> "true"
      [] x = Literal(LvString(<<"a">>)) -> "a"

\* the canonical parenthesised prefix form
RECURSIVE PrefixForm(_)
PrefixForm(x) ==
    CASE x.type = "Binary" ->
            JoinWith(<<"(" \o x.operator.lexeme, PrefixForm(x.left),
                       PrefixForm(x.right) \o ")">>, " ")
      [] x.type = "Unary" ->
            JoinWith(<<"(" \o x.operator.lexeme,
                       PrefixForm(x.right) \o ")">>, " ")
      [] x.type = "Grouping" ->
            JoinWith(<<"(group", PrefixForm(x.expression) \o ")">>, " ")
      [] x.type = "Literal" -> ValueText(x)

\* the tree of tests::printy_print_ast
PrintyPrintAst ==
    Binary(Unary(Token("Minus", "-", None, 1),
                 NumberLiteral(<<"1", "2", "3">>)),
           Token("Star", "*", None, 1),
           Grouping(NumberLiteral(<<"4", "5", ".", "6", "7">>)))

\* C12: serialising a tree is deterministic and follows the canonical
\* parenthesised prefix form: Binary is (op left right), Unary is
\* (op right), Grouping is (group inner), Literal is its value text,
\* recursively; Binary(Unary(-, 123), *, Grouping(45.67)) renders as
\* (* (- 123) (group 45.67)); rendering a tree twice gives the same text.
C12_DisplayPrefixForm ==
    /\ VariableFree(hist.input) =>
          \A i \in DOMAIN stdout : stdout[i] = PrefixForm(hist.input)
    /\ hist.input = PrintyPrintAst =>
          \A i \in DOMAIN stdout : stdout[i] = "(* (- 123) (group 45.67))"
    /\ \A i, j \in DOMAIN stdout : stdout[i] = stdout[j]

\* the tree of the test was rendered twice
C12_Witness ==
    /\ pc = "displayedTwice"
    /\ hist.input = PrintyPrintAst
    /\ stdout = <<"(* (- 123) (group 45.67))", "(* (- 123) (group 45.67))">>

-----------------------------------------------------------------------------
(* Properties of synchronise (under SpecParse)                             *)

\* the last iteration of parse's loop was a declaration that failed, and
\* synchronise has run
Synchronised == pc \in {"parse", "panic"} /\ hist.pstepped /\ ~hist.pok

\* the parser where the failed declaration left it, before synchronise
FailedAt == declaration(hist.ppre).p

\* C13: after a parse error, synchronise leaves the parser on the token
\* right after a semicolon it consumed, on a statement keyword it has not
\* consumed, or on end-of-input; hence a well-formed var or print statement
\* that starts where the broken statement failed is the next statement
\* parsed.
C13_SynchroniseStopsAtBoundary ==
    Synchronised =>
       \E e \in {FailedAt} :
          /\ \/ /\ parser.current > e.current
                /\ previous(parser).token_type = "Semicolon"
             \/ PPeek(parser).token_type \in StatementStart
             \/ PIsAtEnd(parser)
          /\ (PPeek(e).token_type \in {"Var", "Print"} /\ declaration(e).ok)
                => \E d \in {declaration(parser)} :
                      d.ok /\ d.val = declaration(e).val

-----------------------------------------------------------------------------
(* Bounds of the scanner's cursor (under SpecScan)                         *)

\* C14: for every source the scanner never reads the source at an index
\* >= its length (no panic), every scan_token step moves the cursor forward
\* by at least one and never past the end, so that scan_tokens terminates,
\* and it ends with a token list or an error text.
C14_ScannerStaysInBounds ==
    /\ pc # "panic"
    /\ ~scanner.panicked
    /\ scanner.current <= Len(scanner.source)
    /\ hist.stepped => scanner.current > hist.pre.current
    /\ pc = "scanned" =>
          \/ scanResult.ok /\ scanResult.val = scanner.tokens
          \/ ~scanResult.ok /\ errors # <<>>
                             /\ scanResult.err = JoinLines(errors)

-----------------------------------------------------------------------------
(* Bounds of the parser's cursor (under SpecParseAll)                      *)

\* C15: for every token sequence that ends with the one end-of-input token,
\* parse terminates: every iteration of its loop moves the cursor forward
\* by at least one token, the cursor stays within 0..len-1 and never moves
\* past the end-of-input token, and previous() is never read with the
\* cursor at 0 (no panic); the loop ends with the cursor on end-of-input.
C15_ParseCursorInBounds ==
    /\ pc # "panic"
    /\ ~parser.panicked
    /\ parser.current \in 0..(Len(parser.tokens) - 1)
    /\ \A i \in 1..parser.current : parser.tokens[i].token_type # "Eof"
    /\ hist.pstepped => parser.current > hist.ppre.current
    /\ pc = "parsed" => PIsAtEnd(parser)

\* parse has returned after iterations that succeeded and a last one that
\* failed at its first token and was followed by synchronise
C15_Witness ==
    /\ pc = "parsed"
    /\ statements # <<>>
    /\ ~hist.pok
    /\ declaration(hist.ppre).p.current = hist.ppre.current
    /\ parser.current = hist.ppre.current + 1
    /\ PIsAtEnd(parser)

=============================================================================
